---- MODULE Spec2Model ----
(***************************************************************************)
(* Model of the bloodwork analysis backend: the sequence allocator         *)
(* (DatabaseService.get_next_sequential_id and                             *)
(* SequenceCounterRepository.get_next_id over their MongoDB collections)   *)
(* and the PDF analysis pipeline (AnalysisRouter and                       *)
(* BloodworkPdfAnalysisService over the data/blood_work_pdfs directory).   *)
(***************************************************************************)
EXTENDS Integers, Sequences, FiniteSets, TLC

(***************************************************************************)
(* Bounds of the model.                                                    *)
(***************************************************************************)
\* number of coroutines that call an allocator concurrently
MaxProcs == 2
\* total number of allocator calls in one behaviour
MaxCalls == 2
\* number of seconds the wall clock may advance
MaxTicks == 1
\* int(time.time()) at the start of a behaviour
StartTime == 1700000000

\* number of submissions in one behaviour
MaxReqs == 1
\* largest number of pages of an uploaded document
MaxPages == 2
\* largest number of characters a failed write leaves in a file
MaxWritten == 1

\* total number of diagnostic repository operations in one behaviour
MaxDiagOps == 3

Procs == 1..MaxProcs
Reqs == 1..MaxReqs
\* the values uuid4() may return; one more than the submissions can use up
Uuids == 1..(MaxReqs + 1)

(***************************************************************************)
(* Identifier formatting.                                                  *)
(***************************************************************************)
\* minimum width of the numeric part: the 03 of f"{prefix}-{seq:03d}"
PadWidth == 3

NoPrefix == "none"

\* entity types used by the callers of the model; "widget" is not in prefix_map
EntityTypes == {"diagnostic", "patient", "widget"}

\* prefix_map.get(entity_type, "UNK")
PrefixOf(entity_type) ==
    CASE entity_type = "patient" -> "PAT"
      [] entity_type = "veterinarian" -> "VET"
      [] entity_type = "technician" -> "TEC"
      [] entity_type = "admin" -> "ADM"
      [] entity_type = "diagnostic" -> "DGN"
      [] entity_type = "token" -> "TKN"
      [] OTHER -> "UNK"

RECURSIVE Digits(_)
\* str(n) for n >= 0: the decimal digits of n, most significant first
Digits(n) == IF n < 10 THEN <<n>> ELSE Digits(n \div 10) \o <<n % 10>>

\* a formatter of fixed width: the last PadWidth digits only
Fmt03dTruncating(n) ==
    LET s == Digits(n)
    IN  IF Len(s) >= PadWidth
        THEN SubSeq(s, Len(s) - PadWidth + 1, Len(s))
        ELSE [i \in 1..(PadWidth - Len(s)) |-> 0] \o s

\* f"{n:03d}": decimal digits, left-padded with zeros to PadWidth
Fmt03d(n) ==
    LET s == Digits(n)
    IN  IF Len(s) >= PadWidth THEN s
        ELSE [i \in 1..(PadWidth - Len(s)) |-> 0] \o s

RECURSIVE NumOf(_)
\* the number a digit string denotes
NumOf(ds) == IF Len(ds) = 0 THEN 0
             ELSE 10 * NumOf(SubSeq(ds, 1, Len(ds) - 1)) + ds[Len(ds)]

\* f"{prefix}-{seq:03d}"
CounterId(prefix, seq) == [prefix |-> prefix, digits |-> Fmt03d(seq)]

\* f"{prefix}-{timestamp}"
TimestampId(prefix, timestamp) == [prefix |-> prefix, digits |-> Digits(timestamp)]

(***************************************************************************)
(* State.                                                                  *)
(***************************************************************************)
VARIABLES
    counters,     \* collection "counters": _id -> [seq]
    seqColl,      \* collection "sequence_counters": _id -> [current_value, prefix]
    now,          \* int(time.time())
    apc,          \* per coroutine: position inside an allocator call
    alocal,       \* per coroutine: locals of the running allocator call
    allocs,       \* history: the calls that returned, with what they returned
    opCount       \* history: number of allocator calls started

allocVars == <<counters, seqColl, now, apc, alocal, allocs, opCount>>

VARIABLES
    pc,        \* per submission: position of the submit handler
    req,       \* per submission: the upload (content type; whether the
               \* bytes read are a document that does not render; the
               \* document read from the temporary file; what
               \* convert_pdf_to_image_list did with it)
    uuidOf,    \* per submission: analysis_uuid, 0 before uuid4()
    response,  \* per submission: the HTTP response of submit
    temp,      \* per submission: the NamedTemporaryFile on disk
    bg,        \* per submission: position of the background task
    bgArgs,    \* per submission: image_paths handed to add_task
    status,    \* history: where the submission is in its life cycle
    exc,       \* history: the exception the background task caught
    trace,     \* history: the steps run for the submission, in order
    dirs,      \* data/blood_work_pdfs/<uuid>: images and result files
    lastPoll,  \* history: the latest answer of get_result
    payload,   \* history: content of the user message of the POST
    analysis   \* history: the text analyze_bloodwork_images returned

pipeVars == <<pc, req, uuidOf, response, temp, bg, bgArgs, status, exc,
              trace, dirs, lastPoll, payload, analysis>>

VARIABLES
    ai_diagnostics,  \* collection "ai_diagnostics": _id -> document
    dpc,             \* per coroutine: position inside a creation
    dlocal,          \* per coroutine: the diagnostic being created
    dres,            \* history: what the latest repository call returned
    dops             \* history: number of repository operations started

diagVars == <<ai_diagnostics, dpc, dlocal, dres, dops>>

NoLocal == [path |-> "none", type |-> "none", order |-> 0, value |-> 0,
            id |-> [prefix |-> NoPrefix, digits |-> <<>>], kind |-> "none"]

InitAlloc ==
    /\ counters = <<>>
    /\ seqColl = <<>>
    /\ now = StartTime
    /\ apc = [p \in Procs |-> "idle"]
    /\ alocal = [p \in Procs |-> NoLocal]
    /\ allocs = {}
    /\ opCount = 0

(***************************************************************************)
(* MongoDB single-document operations.                                     *)
(***************************************************************************)
\* a lost update: the counter document exists and is written back unchanged
IncSeqLost(coll, key) ==
    IF key \in DOMAIN coll
    THEN coll
    ELSE [k \in DOMAIN coll \cup {key} |->
            IF k = key THEN [seq |-> 1] ELSE coll[k]]

\* find_one_and_update({"_id": key}, {"$inc": {"seq": 1}}, upsert=True): the
\* collection after the operation
IncSeq(coll, key) ==
    IF key \in DOMAIN coll
    THEN [coll EXCEPT ![key] = [@ EXCEPT !.seq = @ + 1]]
    ELSE [k \in DOMAIN coll \cup {key} |->
            IF k = key THEN [seq |-> 1] ELSE coll[k]]

\* an increment that is lost when the counter document exists
IncCurrentValueLost(coll, key) ==
    IF key \in DOMAIN coll
    THEN coll
    ELSE [k \in DOMAIN coll \cup {key} |->
            IF k = key THEN [current_value |-> 1, prefix |-> NoPrefix]
            ELSE coll[k]]

\* find_one_and_update({"_id": key}, {"$inc": {"current_value": 1}},
\* upsert=True): the collection after the operation
IncCurrentValue(coll, key) ==
    IF key \in DOMAIN coll
    THEN [coll EXCEPT ![key] = [@ EXCEPT !.current_value = @ + 1]]
    ELSE [k \in DOMAIN coll \cup {key} |->
            IF k = key THEN [current_value |-> 1, prefix |-> NoPrefix]
            ELSE coll[k]]

\* update_one({"_id": key}, {"$set": {"prefix": prefix}})
SetPrefix(coll, key, prefix) ==
    IF key \in DOMAIN coll
    THEN [coll EXCEPT ![key] = [@ EXCEPT !.prefix = prefix]]
    ELSE coll

\* counter_id = f"{counter_type}_seq"
CounterKey(counter_type) == <<counter_type, "_seq">>

\* a fallback that forgets the prefix of the entity type
FallbackIdUnknownPrefix(prefix, timestamp) == TimestampId("UNK", timestamp)

\* the identifier returned by the except branch of both allocators
FallbackId(prefix, timestamp) == TimestampId(prefix, timestamp)

(***************************************************************************)
(* DatabaseService.get_next_sequential_id                                  *)
(***************************************************************************)
\* the atomic increment-and-read, or its failure and the except branch
GetNextSequentialId(p, entity_type, dbOk) ==
    /\ apc[p] = "idle"
    /\ opCount < MaxCalls
    /\ opCount' = opCount + 1
    /\ IF dbOk
       THEN /\ counters' = IncSeq(counters, entity_type)
            /\ alocal' = [alocal EXCEPT ![p] =
                 [path |-> "db", type |-> entity_type, order |-> opCount + 1,
                  value |-> counters'[entity_type].seq,
                  id |-> CounterId(PrefixOf(entity_type),
                                   counters'[entity_type].seq),
                  kind |-> "counter"]]
       ELSE /\ counters' = counters
            /\ alocal' = [alocal EXCEPT ![p] =
                 [path |-> "db", type |-> entity_type, order |-> opCount + 1,
                  value |-> 0,
                  id |-> FallbackId(PrefixOf(entity_type), now),
                  kind |-> "timestamp"]]
    /\ apc' = [apc EXCEPT ![p] = "returning"]
    /\ UNCHANGED <<seqColl, now, allocs, pipeVars, diagVars>>

(***************************************************************************)
(* SequenceCounterRepository.get_next_id                                   *)
(***************************************************************************)
\* the atomic increment-and-read, or its failure and the except branch
GetNextId(p, counter_type, dbOk) ==
    /\ apc[p] = "idle"
    /\ opCount < MaxCalls
    /\ opCount' = opCount + 1
    /\ IF dbOk
       THEN LET key == CounterKey(counter_type)
                coll == IncCurrentValue(seqColl, key)
            IN  /\ seqColl' = coll
                /\ alocal' = [alocal EXCEPT ![p] =
                     [path |-> "repo", type |-> counter_type,
                      order |-> opCount + 1,
                      value |-> coll[key].current_value,
                      id |-> CounterId(PrefixOf(counter_type),
                                       coll[key].current_value),
                      kind |-> "counter"]]
                /\ apc' = [apc EXCEPT ![p] =
                     IF coll[key].prefix = NoPrefix THEN "set_prefix"
                     ELSE "returning"]
       ELSE /\ seqColl' = seqColl
            /\ alocal' = [alocal EXCEPT ![p] =
                 [path |-> "repo", type |-> counter_type,
                  order |-> opCount + 1, value |-> 0,
                  id |-> FallbackId(PrefixOf(counter_type), now),
                  kind |-> "timestamp"]]
            /\ apc' = [apc EXCEPT ![p] = "returning"]
    /\ UNCHANGED <<counters, now, allocs, pipeVars, diagVars>>

\* the update_one that stores the prefix of a new counter, or its failure
\* and the except branch
GetNextIdSetPrefix(p, dbOk) ==
    /\ apc[p] = "set_prefix"
    /\ IF dbOk
       THEN /\ seqColl' = SetPrefix(seqColl, CounterKey(alocal[p].type),
                                    PrefixOf(alocal[p].type))
            /\ alocal' = alocal
       ELSE /\ seqColl' = seqColl
            /\ alocal' = [alocal EXCEPT ![p] =
                 [@ EXCEPT !.id = FallbackId(PrefixOf(alocal[p].type), now),
                           !.kind = "timestamp"]]
    /\ apc' = [apc EXCEPT ![p] = "returning"]
    /\ UNCHANGED <<counters, now, allocs, opCount, pipeVars, diagVars>>

\* the allocator call returns its identifier to the caller
AllocReturn(p) ==
    /\ apc[p] = "returning"
    /\ allocs' = allocs \cup {alocal[p]}
    /\ alocal' = [alocal EXCEPT ![p] = NoLocal]
    /\ apc' = [apc EXCEPT ![p] = "idle"]
    /\ UNCHANGED <<counters, seqColl, now, opCount, pipeVars, diagVars>>

(***************************************************************************)
(* AdminRepository._generate_admin_id and UserRepository._generate_user_id *)
(***************************************************************************)
\* the values of UserRole
UserRoles == {"veterinarian", "veterinary_technician"}

\* counter_id = "admin_seq", counter_id = f"{role.value}_seq"
SeqKey(name) == name \o "_seq"

\* prefix = "VET" if role == UserRole.VETERINARIAN else "TEC"
UserPrefix(role) == IF role = "veterinarian" THEN "VET" ELSE "TEC"

\* the increment-and-read on the document `key` of the collection counters;
\* there is no except clause: a failure of the operation reaches the caller
GenerateId(p, path, type, key, prefix, dbOk) ==
    /\ apc[p] = "idle"
    /\ opCount < MaxCalls
    /\ opCount' = opCount + 1
    /\ IF dbOk
       THEN /\ counters' = IncSeq(counters, key)
            /\ alocal' = [alocal EXCEPT ![p] =
                 [path |-> path, type |-> type, order |-> opCount + 1,
                  value |-> counters'[key].seq,
                  id |-> CounterId(prefix, counters'[key].seq),
                  kind |-> "counter"]]
       ELSE /\ counters' = counters
            /\ alocal' = [alocal EXCEPT ![p] =
                 [path |-> path, type |-> type, order |-> opCount + 1,
                  value |-> 0,
                  id |-> [prefix |-> NoPrefix, digits |-> <<>>],
                  kind |-> "raised"]]
    /\ apc' = [apc EXCEPT ![p] = "returning"]
    /\ UNCHANGED <<seqColl, now, allocs, pipeVars, diagVars>>

\* AdminRepository._generate_admin_id
GenerateAdminId(p, dbOk) ==
    GenerateId(p, "admin_repo", "admin", SeqKey("admin"), "ADM", dbOk)

\* UserRepository._generate_user_id
GenerateUserId(p, role, dbOk) ==
    GenerateId(p, "user_repo", role, SeqKey(role), UserPrefix(role), dbOk)

(***************************************************************************)
(* SequenceCounterRepository.initialize_counters                           *)
(***************************************************************************)
\* counter_types, in the order the loop goes through its items
counter_types ==
    << [counter_id |-> CounterKey("patient"), prefix |-> "PAT"],
       [counter_id |-> CounterKey("veterinarian"), prefix |-> "VET"],
       [counter_id |-> CounterKey("technician"), prefix |-> "TEC"],
       [counter_id |-> CounterKey("admin"), prefix |-> "ADM"],
       [counter_id |-> CounterKey("diagnostic"), prefix |-> "DGN"],
       [counter_id |-> CounterKey("token"), prefix |-> "TKN"] >>

\* an upsert with $set: the fields are written whether the document exists
\* or not
SetUpsert(coll, key, fields) ==
    [k \in DOMAIN coll \cup {key} |-> IF k = key THEN fields ELSE coll[k]]

\* update_one({"_id": key}, {"$setOnInsert": fields}, upsert=True): the
\* fields are written only when the document is inserted
SetOnInsert(coll, key, fields) ==
    IF key \in DOMAIN coll
    THEN coll
    ELSE [k \in DOMAIN coll \cup {key} |->
            IF k = key THEN fields ELSE coll[k]]

\* one turn of the loop of initialize_counters, from one await to the next:
\* the call starts with the first item; value is the index of the item the
\* turn is about; after the last item the call returns True, and a failure
\* of the update makes it return False
InitializeCounters(p, dbOk) ==
    /\ apc[p] \in {"idle", "initializing"}
    /\ apc[p] = "idle" => opCount < MaxCalls
    /\ opCount' = IF apc[p] = "idle" THEN opCount + 1 ELSE opCount
    /\ LET index == IF apc[p] = "idle" THEN 1 ELSE alocal[p].value
           order == IF apc[p] = "idle" THEN opCount + 1 ELSE alocal[p].order
           item == counter_types[index]
           call == [path |-> "init", type |-> "none", order |-> order,
                    value |-> index,
                    id |-> [prefix |-> NoPrefix, digits |-> <<>>],
                    kind |-> "none"]
       IN  IF ~dbOk
           THEN /\ seqColl' = seqColl
                /\ alocal' = [alocal EXCEPT ![p] =
                                 [call EXCEPT !.kind = "returned_false"]]
                /\ apc' = [apc EXCEPT ![p] = "returning"]
           ELSE /\ seqColl' = SetOnInsert(seqColl, item.counter_id,
                                 [current_value |-> 0, prefix |-> item.prefix])
                /\ IF index = Len(counter_types)
                   THEN /\ alocal' = [alocal EXCEPT ![p] =
                                        [call EXCEPT !.kind = "returned_true"]]
                        /\ apc' = [apc EXCEPT ![p] = "returning"]
                   ELSE /\ alocal' = [alocal EXCEPT ![p] =
                                        [call EXCEPT !.value = index + 1]]
                        /\ apc' = [apc EXCEPT ![p] = "initializing"]
    /\ UNCHANGED <<counters, now, allocs, pipeVars, diagVars>>

\* the wall clock advances by one second
Tick ==
    /\ now < StartTime + MaxTicks
    /\ now' = now + 1
    /\ UNCHANGED <<counters, seqColl, apc, alocal, allocs, opCount, pipeVars, diagVars>>


(***************************************************************************)
(* The PDF analysis pipeline: inputs.                                      *)
(***************************************************************************)
\* self.supported_content_type of PdfAnalysisConfiguration
supported_content_type == "application/pdf"

ContentTypes == {"application/pdf", "image/png"}

\* an uploaded binary: whether fitz.open accepts it, its number of pages (at
\* least one when it opens) and the first page whose conversion raises
\* (0: none)
Docs ==
    {[openable |-> FALSE, pages |-> 0, badPage |-> 0]} \cup
    UNION {{[openable |-> TRUE, pages |-> n, badPage |-> b] : b \in 0..n} :
              n \in 1..MaxPages}

\* message.content of the first choice of a reply of the endpoint
RawContents == {<<" ">>, <<" ", "a">>, <<"b", "\r", "c">>}

\* what the POST to the endpoint ends with
RemoteOutcomes ==
    {[kind |-> "ok", content |-> c] : c \in RawContents} \cup
    {[kind |-> k, content |-> <<>>] :
        k \in {"timeout", "http_status", "no_choices"}}

\* what writing a file ends with: written and closed, open() raising, or
\* write()/close() raising after open() created the file
IoOutcomes == {"ok", "open_fail", "write_fail"}

\* the characters str.strip() removes, among those of the model
Whitespace == {" ", "\r", "\n"}

RECURSIVE LStrip(_)
\* s.lstrip() over the characters of the model
LStrip(s) == IF Len(s) > 0 /\ s[1] \in Whitespace THEN LStrip(Tail(s)) ELSE s

RECURSIVE RStrip(_)
\* s.rstrip() over the characters of the model
RStrip(s) == IF Len(s) > 0 /\ s[Len(s)] \in Whitespace
             THEN RStrip(SubSeq(s, 1, Len(s) - 1)) ELSE s

\* s.strip()
Strip(s) == RStrip(LStrip(s))

(***************************************************************************)
(* The PDF analysis pipeline: state.                                       *)
(***************************************************************************)
NoFile == [exists |-> FALSE, content |-> <<>>]

NoErrorFile == [exists |-> FALSE, error |-> <<>>, uuid |-> 0, status |-> ""]

NoDir == [exists |-> FALSE, images |-> <<>>,
          model_output |-> NoFile, error_json |-> NoErrorFile]

NoResponse == [code |-> 0, pdf_uuid |-> 0]

NoPoll == [uuid |-> 0, code |-> 0, content |-> <<>>]

\* the bytes of an upload that were never handed to fitz.open
NoDoc == [openable |-> FALSE, pages |-> 0, badPage |-> 0]

\* no call of convert_pdf_to_image_list was made
NoRender == [raised |-> FALSE, images |-> <<>>, saved |-> <<>>, closes |-> 0,
             error |-> <<>>]

InitPipe ==
    /\ pc = [r \in Reqs |-> "idle"]
    /\ req = [r \in Reqs |-> [content_type |-> "", corrupt |-> FALSE,
                              doc |-> NoDoc, render |-> NoRender]]
    /\ uuidOf = [r \in Reqs |-> 0]
    /\ response = [r \in Reqs |-> NoResponse]
    /\ temp = [r \in Reqs |-> "none"]
    /\ bg = [r \in Reqs |-> "none"]
    /\ bgArgs = [r \in Reqs |-> <<>>]
    /\ status = [r \in Reqs |-> "NONE"]
    /\ exc = [r \in Reqs |-> "none"]
    /\ trace = [r \in Reqs |-> <<>>]
    /\ dirs = [u \in Uuids |-> NoDir]
    /\ lastPoll = NoPoll
    /\ payload = [r \in Reqs |-> <<>>]
    /\ analysis = [r \in Reqs |-> <<>>]

(***************************************************************************)
(* PdfImageConverter.convert_pdf_to_image_list                             *)
(***************************************************************************)
\* error_msg = f"Failed to convert page {page_index + 1}", by page number
PageErrorMessage(page) == <<"Failed to convert page ", page>>

\* error_msg = f"Failed to open PDF document: {pdf_file_path}"
OpenErrorMessage == <<"Failed to open PDF document">>

\* a clause that closes the document only after the last page was converted
CloseOnSuccessOnly(raised, closes) == IF raised THEN closes ELSE closes + 1

\* finally: pdf_document.close() -- runs whether or not the loop raised
CloseInFinally(raised, closes) == closes + 1

RECURSIVE ConvertPagesSkipBadPage(_, _, _)
\* a loop that logs the page that fails and goes on with the next one
ConvertPagesSkipBadPage(doc, page_index, converted) ==
    IF page_index > doc.pages
    THEN [raised |-> FALSE, images |-> converted, saved |-> converted,
          closes |-> 1, error |-> <<>>]
    ELSE IF page_index = doc.badPage
    THEN ConvertPagesSkipBadPage(doc, page_index + 1, converted)
    ELSE ConvertPagesSkipBadPage(doc, page_index + 1,
                                 Append(converted, page_index))

RECURSIVE ConvertPages(_, _, _)
\* the for loop over range(total_pages) from page_index on, with the images
\* converted so far; the finally clause closes the document once
ConvertPages(doc, page_index, converted) ==
    IF page_index > doc.pages
    THEN [raised |-> FALSE, images |-> converted, saved |-> converted,
          closes |-> CloseInFinally(FALSE, 0), error |-> <<>>]
    ELSE IF page_index = doc.badPage
    THEN [raised |-> TRUE, images |-> <<>>, saved |-> converted,
          closes |-> CloseInFinally(TRUE, 0),
          error |-> PageErrorMessage(page_index)]
    ELSE ConvertPages(doc, page_index + 1, Append(converted, page_index))

\* a converter that catches the failure of a page, skips the page and
\* returns the images of the pages that did render
ConvertPdfToImageListPartial(doc) ==
    IF ~doc.openable
    THEN [raised |-> TRUE, images |-> <<>>, saved |-> <<>>, closes |-> 0,
          error |-> OpenErrorMessage]
    ELSE [raised |-> FALSE,
          images |-> SelectSeq([i \in 1..doc.pages |-> i],
                               LAMBDA i : i # doc.badPage),
          saved |-> SelectSeq([i \in 1..doc.pages |-> i],
                              LAMBDA i : i # doc.badPage),
          closes |-> 1,
          error |-> IF doc.badPage = 0 THEN <<>>
                    ELSE PageErrorMessage(doc.badPage)]

\* the whole call: fitz.open, then the loop; images are the returned paths
\* (by page number), saved the image files left in the output directory,
\* closes the number of calls of pdf_document.close(), error the message of
\* the RuntimeError raised
ConvertPdfToImageList(doc) ==
    IF ~doc.openable
    THEN [raised |-> TRUE, images |-> <<>>, saved |-> <<>>, closes |-> 0,
          error |-> OpenErrorMessage]
    ELSE ConvertPages(doc, 1, <<>>)

(***************************************************************************)
(* AnalysisRouter.analyze_pdf_file_endpoint and                            *)
(* BloodworkPdfAnalysisService.process_uploaded_pdf_in_background          *)
(***************************************************************************)
\* str(uuid4()): a value no earlier call returned
Uuid4 == CHOOSE u \in Uuids :
            /\ \A q \in Reqs : uuidOf[q] # u
            /\ \A v \in Uuids : (\A q \in Reqs : uuidOf[q] # v) => u <= v

\* _validate_pdf_file of the router
ValidatePdfFile(content_type) == content_type = "application/pdf"

\* _validate_uploaded_file of the service
ValidateUploadedFile(content_type) == content_type = supported_content_type

\* a router whose except clause turns every failure into a 500
EndpointErrorCodeInternal(isHttpException, code) ==
    IF isHttpException THEN 500 ELSE 500

\* the status code the router's except clauses give a failure of the
\* service: an HTTPException keeps its code, anything else becomes 500
EndpointErrorCode(isHttpException, code) ==
    IF isHttpException THEN code ELSE 500

\* submit up to its first suspension point (await uploaded_file.read()):
\* validation in the router and in the service, uuid4(), the working directory
SubmitBegin(r, content_type, mkdirOk) ==
    /\ pc[r] = "idle"
    \* submissions are numbered in the order of their arrival
    /\ \A q \in Reqs : q < r => pc[q] # "idle"
    /\ req' = [req EXCEPT ![r] = [@ EXCEPT !.content_type = content_type]]
    /\ IF ~(ValidatePdfFile(content_type) /\ ValidateUploadedFile(content_type))
       THEN \* HTTPException(400) raised by the first validation that fails
            /\ pc' = [pc EXCEPT ![r] = "done"]
            /\ response' = [response EXCEPT ![r] =
                 [code |-> EndpointErrorCode(TRUE, 400), pdf_uuid |-> 0]]
            /\ trace' = [trace EXCEPT ![r] = <<"validate_raised", "respond">>]
            /\ UNCHANGED <<uuidOf, dirs>>
       ELSE IF ~mkdirOk
       THEN \* mkdir raises: except Exception -> HTTPException(500)
            /\ pc' = [pc EXCEPT ![r] = "done"]
            /\ uuidOf' = [uuidOf EXCEPT ![r] = Uuid4]
            /\ response' = [response EXCEPT ![r] =
                 [code |-> EndpointErrorCode(TRUE, 500), pdf_uuid |-> 0]]
            /\ trace' = [trace EXCEPT ![r] =
                 <<"validate", "uuid", "mkdir_raised", "respond">>]
            /\ UNCHANGED dirs
       ELSE /\ pc' = [pc EXCEPT ![r] = "reading"]
            /\ uuidOf' = [uuidOf EXCEPT ![r] = Uuid4]
            /\ dirs' = [dirs EXCEPT ![Uuid4] = [@ EXCEPT !.exists = TRUE]]
            /\ trace' = [trace EXCEPT ![r] = <<"validate", "uuid", "mkdir">>]
            /\ UNCHANGED response
    /\ UNCHANGED <<temp, bg, bgArgs, status, exc, lastPoll, payload, analysis,
                   allocVars, diagVars>>

\* a document whose conversion cannot succeed: fitz.open or a page raises
Corrupt(doc) == ~doc.openable \/ doc.badPage # 0

\* an accepted upload handled inline: the analysis is started and awaited
\* before any response is given
SubmitAcceptedInline(r, u, images) ==
    /\ bg' = [bg EXCEPT ![r] = "awaiting"]
    /\ bgArgs' = [bgArgs EXCEPT ![r] = images]
    /\ status' = [status EXCEPT ![r] = "PROCESSING"]
    /\ response' = response
    /\ trace' = [trace EXCEPT ![r] =
         @ \o <<"save_temp", "render", "cleanup", "bg_start", "remote_call">>]

\* the end of the try block for an upload that was converted: add_task with
\* the image paths, the return value, the finally clause, and the response
\* of the router; the task starts only after the response was sent
SubmitAccepted(r, u, images) ==
    /\ bg' = [bg EXCEPT ![r] = "scheduled"]
    /\ bgArgs' = [bgArgs EXCEPT ![r] = images]
    /\ status' = [status EXCEPT ![r] = "QUEUED"]
    /\ response' = [response EXCEPT ![r] = [code |-> 200, pdf_uuid |-> u]]
    /\ trace' = [trace EXCEPT ![r] =
         @ \o <<"save_temp", "render", "schedule", "cleanup", "respond">>]

\* submit from the end of the upload read on (doc: the bytes read): the
\* temporary file, the conversion to images, add_task, the finally clause,
\* the response.
\* saveOutcome: "ok", "fail_no_file" (NamedTemporaryFile raises) or
\* "fail_file_left" (the read or the write raises after the file exists)
SubmitFinish(r, doc, saveOutcome) ==
    /\ pc[r] = "reading"
    /\ pc' = [pc EXCEPT ![r] = "done"]
    \* the bytes are not looked at when the temporary file cannot be written
    /\ saveOutcome # "ok" =>
          doc = NoDoc
    /\ LET u == uuidOf[r]
           conv == ConvertPdfToImageList(doc)
       IN  IF saveOutcome # "ok"
           THEN \* RuntimeError; temp_pdf_path is still None in the finally
                /\ temp' = [temp EXCEPT ![r] =
                     IF saveOutcome = "fail_file_left" THEN "exists"
                     ELSE "none"]
                /\ response' = [response EXCEPT ![r] =
                     [code |-> EndpointErrorCode(TRUE, 500), pdf_uuid |-> 0]]
                /\ trace' = [trace EXCEPT ![r] =
                     @ \o <<"save_temp_raised", "cleanup", "respond">>]
                /\ UNCHANGED <<req, dirs, bg, bgArgs, status>>
           ELSE IF conv.raised
           THEN \* RuntimeError("Failed to convert PDF to images")
                /\ req' = [req EXCEPT ![r] =
                     [@ EXCEPT !.corrupt = Corrupt(doc), !.doc = doc,
                               !.render = conv]]
                /\ temp' = [temp EXCEPT ![r] = "removed"]
                /\ dirs' = [dirs EXCEPT ![u] = [@ EXCEPT !.images = conv.saved]]
                /\ response' = [response EXCEPT ![r] =
                     [code |-> EndpointErrorCode(TRUE, 500), pdf_uuid |-> 0]]
                /\ trace' = [trace EXCEPT ![r] =
                     @ \o <<"save_temp", "render_raised", "cleanup",
                            "respond">>]
                /\ UNCHANGED <<bg, bgArgs, status>>
           ELSE /\ req' = [req EXCEPT ![r] =
                     [@ EXCEPT !.corrupt = Corrupt(doc), !.doc = doc,
                               !.render = conv]]
                /\ temp' = [temp EXCEPT ![r] = "removed"]
                /\ dirs' = [dirs EXCEPT ![u] = [@ EXCEPT !.images = conv.saved]]
                /\ SubmitAccepted(r, u, conv.images)
    /\ UNCHANGED <<uuidOf, exc, lastPoll, payload, analysis, allocVars,
                   diagVars>>

(***************************************************************************)
(* BloodworkAnalysisService.analyze_bloodwork_images                       *)
(***************************************************************************)
\* the steps of a submission that the coroutine awaits while they run in the
\* default executor, off the event loop thread: the POST of _make_api_request
\* (run_in_executor). convert_pdf_to_image_list is called directly in the
\* coroutine of submit and is not among them.
ExecutorSteps == {"remote_call"}

\* the text item every request starts its user message with
InstructionText == "Segui istruzioni come specificato nel prompt."

\* base64 of the bytes of an image file, as a data URL
ImageUrl(image_path) == <<"data:image/png;base64,", image_path>>

\* a loop that collects the image messages last page first
PrepareImageMessagesReversed(image_paths) ==
    [i \in 1..Len(image_paths) |->
        [type |-> "image_url",
         image_url |-> ImageUrl(image_paths[Len(image_paths) + 1 - i])]]

\* _prepare_image_messages: one image_url item per path, in the order of
\* image_paths
PrepareImageMessages(image_paths) ==
    [i \in 1..Len(image_paths) |->
        [type |-> "image_url", image_url |-> ImageUrl(image_paths[i])]]

\* _create_api_request_payload: the content of the user message, the text
\* item followed by the image items
CreateApiRequestPayload(image_messages) ==
    <<[type |-> "text", text |-> InstructionText]>> \o image_messages

\* a client that sends the POST again after the first one
MakeApiRequestRetrying(steps) == steps \o <<"remote_call", "remote_call">>

\* _make_api_request: one requests.post in the executor, with no loop
\* around it; steps are the steps run so far
MakeApiRequest(steps) == steps \o <<"remote_call">>

\* the except clause of analyze_bloodwork_images: whatever was raised inside
\* is replaced by RuntimeError("Failed to analyze bloodwork images")
AnalyzeBloodworkImagesError(kind) ==
    [type |-> "RuntimeError", message |-> "Failed to analyze bloodwork images"]

\* _make_api_request and _extract_analysis_result on the outcome of the POST:
\* the text returned, or the exception raised
ExtractAnalysisResult(outcome) ==
    IF outcome.kind # "ok"
    THEN [raised |-> TRUE, exc |-> outcome.kind, text |-> <<>>]
    ELSE IF Strip(outcome.content) = <<>>
    THEN [raised |-> TRUE, exc |-> "empty_content", text |-> <<>>]
    ELSE [raised |-> FALSE, exc |-> "none", text |-> Strip(outcome.content)]

(***************************************************************************)
(* BloodworkPdfAnalysisService: the background task                        *)
(***************************************************************************)
\* os.linesep of the platform the service is deployed on (POSIX)
OsLinesep == <<"\n">>

RECURSIVE TranslateOnWrite(_)
\* what a file opened with open(path, "w") stores for the text written: every
\* "\n" becomes os.linesep, every other character is stored as it is
TranslateOnWrite(text) ==
    IF text = <<>> THEN <<>>
    ELSE (IF text[1] = "\n" THEN OsLinesep ELSE <<text[1]>>)
            \o TranslateOnWrite(Tail(text))

RECURSIVE UniversalNewlines(_)
\* what read() of a file opened with open(path, "r") returns for the stored
\* characters: "\r\n" and a lone "\r" are both returned as "\n"
UniversalNewlines(stored) ==
    IF stored = <<>> THEN <<>>
    ELSE IF stored[1] = "\r"
    THEN <<"\n">> \o UniversalNewlines(
                        IF Len(stored) > 1 /\ stored[2] = "\n"
                        THEN SubSeq(stored, 3, Len(stored))
                        ELSE Tail(stored))
    ELSE <<stored[1]>> \o UniversalNewlines(Tail(stored))

\* _save_analysis_result: the directory afterwards and whether it raised;
\* a failed write leaves the first `written` characters in the file
SaveAnalysisResult(dir, text, io, written) ==
    CASE io = "ok" ->
           [raised |-> FALSE,
            dir |-> [dir EXCEPT !.model_output =
                        [exists |-> TRUE,
                         content |-> TranslateOnWrite(text)]]]
      [] io = "open_fail" -> [raised |-> TRUE, dir |-> dir]
      [] OTHER ->
           [raised |-> TRUE,
            dir |-> [dir EXCEPT !.model_output =
                        [exists |-> TRUE,
                         content |-> SubSeq(TranslateOnWrite(text), 1,
                                            written)]]]

\* error_msg = f"AI analysis failed for UUID: {analysis_uuid}"
ErrorMessage(u) == <<"AI analysis failed for UUID: ", ToString(u)>>

\* _save_error_result: the directory afterwards; it never raises
SaveErrorResult(dir, u, io) ==
    CASE io = "ok" ->
           [dir EXCEPT !.error_json =
               [exists |-> TRUE, error |-> ErrorMessage(u), uuid |-> u,
                status |-> "failed"]]
      [] io = "open_fail" -> dir
      [] OTHER ->
           [dir EXCEPT !.error_json =
               [exists |-> TRUE, error |-> <<>>, uuid |-> 0, status |-> ""]]

\* an except branch that schedules the task again
ExceptBranchRequeue(r, u, dir, e, ioErr, steps) ==
    /\ bg' = [bg EXCEPT ![r] = "scheduled"]
    /\ status' = [status EXCEPT ![r] = "FAILED"]
    /\ exc' = [exc EXCEPT ![r] = e]
    /\ dirs' = [dirs EXCEPT ![u] = SaveErrorResult(dir, u, ioErr)]
    /\ trace' = [trace EXCEPT ![r] = @ \o steps \o <<"save_error", "bg_end">>]

\* the except branch of the task, entered with exception e after the steps
\* given: it logs, calls _save_error_result and ends the task
ExceptBranch(r, u, dir, e, ioErr, steps) ==
    /\ bg' = [bg EXCEPT ![r] = "done"]
    /\ status' = [status EXCEPT ![r] = "FAILED"]
    /\ exc' = [exc EXCEPT ![r] = e]
    /\ dirs' = [dirs EXCEPT ![u] = SaveErrorResult(dir, u, ioErr)]
    /\ trace' = [trace EXCEPT ![r] = @ \o steps \o <<"save_error", "bg_end">>]

\* the task from its start to the suspension in run_in_executor: the checks
\* of image_paths and the base64 encoding of the images; a failure there
\* takes the except branch at once
BgStart(r, prepareOk, ioErr) ==
    /\ bg[r] = "scheduled"
    /\ LET u == uuidOf[r]
           image_paths == bgArgs[r]
           missing == \E i \in 1..Len(image_paths) :
                         \A j \in 1..Len(dirs[u].images) :
                             dirs[u].images[j] # image_paths[i]
       IN  /\ IF image_paths = <<>> \/ missing \/ ~prepareOk
              THEN \* ValueError, or RuntimeError from _prepare_image_messages
                   ExceptBranch(r, u, dirs[u],
                                IF image_paths = <<>> THEN "no_images"
                                ELSE IF missing THEN "image_not_found"
                                ELSE "prepare_image",
                                ioErr, <<"bg_start">>)
              ELSE /\ ioErr = "ok"
                   /\ bg' = [bg EXCEPT ![r] = "awaiting"]
                   /\ status' = [status EXCEPT ![r] = "PROCESSING"]
                   /\ trace' = [trace EXCEPT ![r] =
                        MakeApiRequest(@ \o <<"bg_start">>)]
                   /\ UNCHANGED <<exc, dirs>>
           \* the payload is built from image_paths before the POST is made
           /\ payload' = IF image_paths = <<>> \/ missing \/ ~prepareOk
                         THEN payload
                         ELSE [payload EXCEPT ![r] =
                                 CreateApiRequestPayload(
                                     PrepareImageMessages(image_paths))]
    /\ UNCHANGED <<pc, req, uuidOf, response, temp, bgArgs, lastPoll, analysis,
                   allocVars, diagVars>>

\* the task from the end of the POST on: the extraction of the text, then
\* _save_analysis_result, or the except branch with _save_error_result
BgFinish(r, outcome, ioOut, written, ioErr) ==
    /\ bg[r] = "awaiting"
    /\ LET u == uuidOf[r]
           res == ExtractAnalysisResult(outcome)
           saved == SaveAnalysisResult(dirs[u], res.text, ioOut, written)
       IN  \* outcomes of writes that do not take place are not enumerated
           /\ res.raised => ioOut = "ok"
           /\ (~res.raised /\ ioOut = "ok") => ioErr = "ok"
           /\ IF ~res.raised /\ ioOut = "write_fail"
              THEN written \in 0..(Len(res.text) - 1)
              ELSE written = 0
           /\ IF res.raised
              THEN ExceptBranch(r, u, dirs[u], res.exc, ioErr,
                                <<"remote_done">>)
              ELSE IF saved.raised
              THEN ExceptBranch(r, u, saved.dir, "save_result", ioErr,
                                <<"remote_done", "save_result">>)
              ELSE /\ bg' = [bg EXCEPT ![r] = "done"]
                   /\ status' = [status EXCEPT ![r] = "COMPLETED"]
                   /\ dirs' = [dirs EXCEPT ![u] = saved.dir]
                   /\ trace' = [trace EXCEPT ![r] =
                        @ \o <<"remote_done", "save_result", "bg_end">>]
                   /\ UNCHANGED exc
           \* analysis_result = await analyze_bloodwork_images(...)
           /\ analysis' = IF res.raised THEN analysis
                          ELSE [analysis EXCEPT ![r] = res.text]
    /\ UNCHANGED <<pc, req, uuidOf, response, temp, bgArgs, lastPoll, payload,
                   allocVars, diagVars>>

(***************************************************************************)
(* AnalysisRouter.get_analysis_result                                      *)
(***************************************************************************)
\* _read_analysis_result_file: the str that read() returns
ReadAnalysisResultFile(stored) == UniversalNewlines(stored)

\* the answer for a uuid: 202 when model_output.json does not exist, else
\* its content, or 500 when reading it raises
AnalysisResult(dir, readOk) ==
    IF ~dir.model_output.exists THEN [code |-> 202, content |-> <<>>]
    ELSE IF ~readOk THEN [code |-> 500, content |-> <<>>]
    ELSE [code |-> 200,
          content |-> ReadAnalysisResultFile(dir.model_output.content)]

\* one get_result request
GetAnalysisResult(u, readOk) ==
    /\ lastPoll' = [uuid |-> u, code |-> AnalysisResult(dirs[u], readOk).code,
                     content |-> AnalysisResult(dirs[u], readOk).content]
    /\ UNCHANGED <<pc, req, uuidOf, response, temp, bg, bgArgs, status, exc,
                   trace, dirs, payload, analysis, allocVars, diagVars>>


(***************************************************************************)
(* AiDiagnosticRepository over the ai_diagnostics collection. The clock is  *)
(* read but does not advance within a behaviour of SpecDiag.               *)
(***************************************************************************)
\* the patients diagnostics are created for
Patients == {"PAT-001", "PAT-002"}

\* diagnostic_id of a diagnostic whose id create has to generate
Placeholder == [prefix |-> "placeholder", digits |-> <<>>]

\* the ids a caller hands to create: the placeholder, or "DGN-001" itself
CallerIds == {Placeholder, CounterId("DGN", 1)}

\* the default of AiDiagnostic.processing_info, and one other value
DefaultProcessingInfo == [model_version |-> ""]

ProcessingInfos == {DefaultProcessingInfo, [model_version |-> "v1"]}

\* the default of AiDiagnostic.veterinarian_review (None)
NoReview == [notes |-> "", reviewed_at |-> 0]

\* the review_data a caller hands to add_veterinarian_review
ReviewNotes == {"approved"}

\* the pdf_metadata of the diagnostics the callers build
UploadMetadata == [original_filename |-> "upload.pdf"]

\* the ids an update can be addressed to
UpdateIds == {CounterId("DGN", 1), CounterId("DGN", 2)}

NoDiagnostic == [diagnostic_id |-> Placeholder, patient_id |-> "",
                 sequence_number |-> 0]

\* returned: what the caller got back (create: a diagnostic or None; the
\* updates: True or False); raised: the exception that reached the caller;
\* cause: what happened in the collection; existed: whether a document with
\* the id was stored when the call was made
NoResult == [op |-> "none", id |-> Placeholder, returned |-> FALSE,
             raised |-> "none", cause |-> "none", existed |-> FALSE]

InitDiag ==
    /\ ai_diagnostics = <<>>
    /\ dpc = [p \in Procs |-> "idle"]
    /\ dlocal = [p \in Procs |-> NoDiagnostic]
    /\ dres = NoResult
    /\ dops = 0

\* the sequence numbers of the documents of a patient
SequenceNumbersOf(coll, patient_id) ==
    {coll[i].sequence_number :
        i \in {j \in DOMAIN coll : coll[j].patient_id = patient_id}}

\* find_one({"patient_id": patient_id}, sort=[("sequence_number", -1)]) and
\* the return statement, or the except branch when find_one raises
NextSequenceNumber(coll, patient_id, findOk) ==
    LET S == SequenceNumbersOf(coll, patient_id)
    IN  IF ~findOk THEN 1
        ELSE IF S = {} THEN 1
        ELSE (CHOOSE m \in S : \A n \in S : n <= m) + 1

\* a caller starts a creation: await get_next_sequence_number(patient_id)
GetNextSequenceNumber(p, patient_id, findOk) ==
    /\ dpc[p] = "idle"
    /\ dops < MaxDiagOps
    /\ dops' = dops + 1
    /\ dlocal' = [dlocal EXCEPT ![p] =
         [diagnostic_id |-> Placeholder, patient_id |-> patient_id,
          sequence_number |->
              NextSequenceNumber(ai_diagnostics, patient_id, findOk)]]
    /\ dpc' = [dpc EXCEPT ![p] = "have_seq"]
    /\ UNCHANGED <<ai_diagnostics, dres, allocVars, pipeVars>>

\* create up to insert_one: for a placeholder id, the await of
\* _generate_diagnostic_id, that is get_next_sequential_id("diagnostic")
Create(p, diagnostic_id, dbOk) ==
    /\ dpc[p] = "have_seq"
    /\ IF diagnostic_id = Placeholder
       THEN IF dbOk
            THEN /\ counters' = IncSeq(counters, "diagnostic")
                 /\ dlocal' = [dlocal EXCEPT ![p].diagnostic_id =
                      CounterId(PrefixOf("diagnostic"),
                                counters'["diagnostic"].seq)]
            ELSE /\ counters' = counters
                 /\ dlocal' = [dlocal EXCEPT ![p].diagnostic_id =
                      FallbackId(PrefixOf("diagnostic"), now)]
       ELSE /\ dbOk
            /\ counters' = counters
            /\ dlocal' = [dlocal EXCEPT ![p].diagnostic_id = diagnostic_id]
    /\ dpc' = [dpc EXCEPT ![p] = "inserting"]
    /\ UNCHANGED <<ai_diagnostics, dres, dops, seqColl, now, apc, alocal,
                   allocs, opCount, pipeVars>>

\* what create hands back: the diagnostic after insert_one, None from the
\* except clause, which lets no exception through
CreateResult(id, cause) ==
    [op |-> "create", id |-> id, returned |-> cause = "ok",
     raised |-> "none", cause |-> cause, existed |-> cause = "duplicate"]

\* insert_one(doc): DuplicateKeyError when the _id is present, another
\* error when the operation fails; the collection afterwards
InsertOne(coll, id, doc, insertOk) ==
    IF id \in DOMAIN coll THEN [cause |-> "duplicate", coll |-> coll]
    ELSE IF ~insertOk THEN [cause |-> "db_error", coll |-> coll]
    ELSE [cause |-> "ok",
          coll |-> [k \in DOMAIN coll \cup {id} |->
                       IF k = id THEN doc ELSE coll[k]]]

\* create from created_at on: insert_one and the return
CreateInsert(p, insertOk) ==
    /\ dpc[p] = "inserting"
    /\ LET id == dlocal[p].diagnostic_id
           doc == [patient_id |-> dlocal[p].patient_id,
                   sequence_number |-> dlocal[p].sequence_number,
                   pdf_metadata |-> UploadMetadata,
                   processing_info |-> DefaultProcessingInfo,
                   veterinarian_review |-> NoReview,
                   created_at |-> now]
           ins == InsertOne(ai_diagnostics, id, doc, insertOk)
       IN  \* the outcome of an insert that is refused is not enumerated
           /\ id \in DOMAIN ai_diagnostics => insertOk
           /\ ai_diagnostics' = ins.coll
           /\ dres' = CreateResult(id, ins.cause)
    /\ dlocal' = [dlocal EXCEPT ![p] = NoDiagnostic]
    /\ dpc' = [dpc EXCEPT ![p] = "idle"]
    /\ UNCHANGED <<dops, allocVars, pipeVars>>

\* an update that writes a whole fresh document with the one field set
ReplaceProcessingInfo(coll, id, processing_info, dbOk) ==
    IF ~dbOk \/ id \notin DOMAIN coll
    THEN [coll |-> coll, matched |-> dbOk /\ id \in DOMAIN coll,
          modified_count |-> 0]
    ELSE [coll |-> [coll EXCEPT ![id] =
                      [patient_id |-> @.patient_id,
                       sequence_number |-> @.sequence_number,
                       pdf_metadata |-> [original_filename |-> ""],
                       processing_info |-> processing_info,
                       veterinarian_review |-> NoReview,
                       created_at |-> @.created_at]],
          matched |-> TRUE,
          modified_count |-> IF coll[id].processing_info = processing_info
                             THEN 0 ELSE 1]

\* update_one({"_id": id}, {"$set": {"processing_info": processing_info}}):
\* the collection afterwards and result.modified_count
SetProcessingInfo(coll, id, processing_info, dbOk) ==
    IF ~dbOk \/ id \notin DOMAIN coll
    THEN [coll |-> coll, matched |-> dbOk /\ id \in DOMAIN coll,
          modified_count |-> 0]
    ELSE [coll |-> [coll EXCEPT ![id].processing_info = processing_info],
          matched |-> TRUE,
          modified_count |-> IF coll[id].processing_info = processing_info
                             THEN 0 ELSE 1]

\* update_one({"_id": id}, {"$set": {"veterinarian_review": review_data}})
SetVeterinarianReview(coll, id, review_data, dbOk) ==
    IF ~dbOk \/ id \notin DOMAIN coll
    THEN [coll |-> coll, matched |-> dbOk /\ id \in DOMAIN coll,
          modified_count |-> 0]
    ELSE [coll |-> [coll EXCEPT ![id].veterinarian_review = review_data],
          matched |-> TRUE,
          modified_count |-> IF coll[id].veterinarian_review = review_data
                             THEN 0 ELSE 1]

\* what an update hands back: modified_count > 0, False from the except
\* clause
UpdateResult(op, id, upd, dbOk, existed) ==
    [op |-> op, id |-> id, returned |-> upd.modified_count > 0,
     raised |-> "none",
     cause |-> IF ~dbOk THEN "db_error"
               ELSE IF ~upd.matched THEN "no_match"
               ELSE IF upd.modified_count = 0 THEN "unchanged" ELSE "ok",
     existed |-> existed]

\* update_processing_info(diagnostic_id, processing_info)
UpdateProcessingInfo(p, diagnostic_id, processing_info, dbOk) ==
    /\ dpc[p] = "idle"
    /\ dops < MaxDiagOps
    /\ dops' = dops + 1
    /\ LET upd == SetProcessingInfo(ai_diagnostics, diagnostic_id,
                                    processing_info, dbOk)
       IN  /\ ai_diagnostics' = upd.coll
           /\ dres' = UpdateResult("update_processing_info", diagnostic_id,
                  upd, dbOk, diagnostic_id \in DOMAIN ai_diagnostics)
    /\ UNCHANGED <<dpc, dlocal, allocVars, pipeVars>>

\* add_veterinarian_review(diagnostic_id, review_data): reviewed_at is set
\* on review_data before the update
AddVeterinarianReview(p, diagnostic_id, notes, dbOk) ==
    /\ dpc[p] = "idle"
    /\ dops < MaxDiagOps
    /\ dops' = dops + 1
    /\ LET review_data == [notes |-> notes, reviewed_at |-> now]
           upd == SetVeterinarianReview(ai_diagnostics, diagnostic_id,
                                        review_data, dbOk)
       IN  /\ ai_diagnostics' = upd.coll
           /\ dres' = UpdateResult("add_veterinarian_review", diagnostic_id,
                  upd, dbOk, diagnostic_id \in DOMAIN ai_diagnostics)
    /\ UNCHANGED <<dpc, dlocal, allocVars, pipeVars>>

NextDiag ==
    \/ \E p \in Procs, pt \in Patients, ok \in BOOLEAN :
          GetNextSequenceNumber(p, pt, ok)
    \/ \E p \in Procs, id \in CallerIds, ok \in BOOLEAN : Create(p, id, ok)
    \/ \E p \in Procs, ok \in BOOLEAN : CreateInsert(p, ok)
    \/ \E p \in Procs, id \in UpdateIds, pi \in ProcessingInfos,
          ok \in BOOLEAN : UpdateProcessingInfo(p, id, pi, ok)
    \/ \E p \in Procs, id \in UpdateIds, n \in ReviewNotes, ok \in BOOLEAN :
          AddVeterinarianReview(p, id, n, ok)

NextPipe ==
    \/ \E r \in Reqs, ct \in ContentTypes, ok \in BOOLEAN :
          SubmitBegin(r, ct, ok)
    \/ \E r \in Reqs, d \in Docs,
          so \in {"ok", "fail_no_file", "fail_file_left"} :
          SubmitFinish(r, d, so)
    \/ \E r \in Reqs, ok \in BOOLEAN, io \in IoOutcomes : BgStart(r, ok, io)
    \/ \E r \in Reqs, o \in RemoteOutcomes, io1 \in IoOutcomes,
          w \in 0..MaxWritten, io2 \in IoOutcomes : BgFinish(r, o, io1, w, io2)
    \/ \E u \in Uuids, ok \in BOOLEAN : GetAnalysisResult(u, ok)

vars == <<allocVars, pipeVars, diagVars>>

Init == InitAlloc /\ InitPipe /\ InitDiag

NextAlloc ==
    \/ \E p \in Procs, t \in EntityTypes, ok \in BOOLEAN :
          GetNextSequentialId(p, t, ok)
    \/ \E p \in Procs, t \in EntityTypes, ok \in BOOLEAN : GetNextId(p, t, ok)
    \/ \E p \in Procs, ok \in BOOLEAN : GetNextIdSetPrefix(p, ok)
    \/ \E p \in Procs : AllocReturn(p)
    \/ Tick

SpecAlloc == Init /\ [][NextAlloc]_vars

SpecPipe == Init /\ [][NextPipe]_vars

SpecDiag == Init /\ [][NextDiag]_vars

(***************************************************************************)
(* The allocators on counters that are already in use: every entity type,  *)
(* with counter values next to a change of the number of digits.           *)
(***************************************************************************)
\* the keys of prefix_map, and a type that is not one of them
AllEntityTypes == {"patient", "veterinarian", "technician", "admin",
                   "diagnostic", "token", "widget"}

\* the values the counter of the entity type holds at the start
SeedValues == {1, 9, 99, 999}

\* the counter documents of one entity type after earlier allocations
InitFmt ==
    /\ InitPipe
    /\ InitDiag
    /\ now = StartTime
    /\ apc = [p \in Procs |-> "idle"]
    /\ alocal = [p \in Procs |-> NoLocal]
    /\ allocs = {}
    /\ opCount = 0
    /\ \E t \in AllEntityTypes, n \in SeedValues :
          /\ counters = [k \in {t} |-> [seq |-> n]]
          /\ seqColl = [k \in {CounterKey(t)} |->
                          [current_value |-> n, prefix |-> PrefixOf(t)]]

\* allocations for the entity type whose counters exist
NextFmt ==
    \/ \E p \in Procs, t \in DOMAIN counters, ok \in BOOLEAN :
          GetNextSequentialId(p, t, ok)
    \/ \E p \in Procs, t \in DOMAIN counters, ok \in BOOLEAN :
          GetNextId(p, t, ok)
    \/ \E p \in Procs : AllocReturn(p)

SpecFmt == InitFmt /\ [][NextFmt]_vars

(***************************************************************************)
(* Every code path that allocates identifiers for admins and users.        *)
(***************************************************************************)
\* the entity types that more than one code path allocates for
PathTypes == {"admin", "veterinarian"}

NextPaths ==
    \/ \E p \in Procs, t \in PathTypes, ok \in BOOLEAN :
          GetNextSequentialId(p, t, ok)
    \/ \E p \in Procs, t \in PathTypes, ok \in BOOLEAN : GetNextId(p, t, ok)
    \/ \E p \in Procs, ok \in BOOLEAN : GetNextIdSetPrefix(p, ok)
    \/ \E p \in Procs, ok \in BOOLEAN : GenerateAdminId(p, ok)
    \/ \E p \in Procs, r \in UserRoles, ok \in BOOLEAN :
          GenerateUserId(p, r, ok)
    \/ \E p \in Procs : AllocReturn(p)

SpecPaths == Init /\ [][NextPaths]_vars

(***************************************************************************)
(* initialize_counters next to allocations of the repository, as in        *)
(* create_test_patient.                                                    *)
(***************************************************************************)
\* the entity types allocated for: the first and the last of counter_types
InitTypes == {"patient", "token"}

NextInit ==
    \/ \E p \in Procs, ok \in BOOLEAN : InitializeCounters(p, ok)
    \/ \E p \in Procs, t \in InitTypes, ok \in BOOLEAN : GetNextId(p, t, ok)
    \/ \E p \in Procs, ok \in BOOLEAN : GetNextIdSetPrefix(p, ok)
    \/ \E p \in Procs : AllocReturn(p)

SpecInit == Init /\ [][NextInit]_vars

(***************************************************************************)
(* Claims about the sequence allocator.                                    *)
(***************************************************************************)
\* the calls of one allocator function for one entity type, a before b
SameAllocator(a, b) ==
    /\ a.path = b.path
    /\ a.type = b.type
    /\ a.order < b.order

\* C1 (as stated): for concurrent calls of an allocator for the same entity
\* type, all the identifiers returned are pairwise distinct and their
\* numeric parts are strictly increasing in issuance order.
C1_Original ==
    \A a, b \in allocs :
        SameAllocator(a, b) =>
            /\ a.id # b.id
            /\ NumOf(a.id.digits) < NumOf(b.id.digits)

\* C1 (amended): for concurrent calls of an allocator for the same entity
\* type, the counter-derived identifiers (those of the calls that did not
\* take the timestamp fallback) are pairwise distinct and their numeric
\* parts are strictly increasing in the order of the atomic increments.
C1_CounterIdsDistinctIncreasing ==
    \A a, b \in allocs :
        (SameAllocator(a, b) /\ a.kind = "counter" /\ b.kind = "counter") =>
            /\ a.id # b.id
            /\ NumOf(a.id.digits) < NumOf(b.id.digits)

\* two overlapping get_next_sequential_id("diagnostic") calls have both
\* returned counter-derived identifiers, the later-issued one first
C1_Witness ==
    \E a \in allocs, p \in Procs :
        /\ a.path = "db" /\ a.type = "diagnostic" /\ a.kind = "counter"
        /\ apc[p] = "returning"
        /\ alocal[p].path = "db" /\ alocal[p].type = "diagnostic"
        /\ alocal[p].kind = "counter"
        /\ alocal[p].order < a.order

\* C10: when the atomic increment-and-read fails the call does not raise; it
\* goes on to return prefix-<timestamp> for the requested entity type, and
\* the failed call leaves both counter collections unchanged.
C10_FallbackOnFailure ==
    [][\A p \in Procs :
          (apc[p] = "idle" /\ apc'[p] # "idle" /\ alocal'[p].value = 0) =>
              /\ apc'[p] = "returning"
              /\ alocal'[p].kind = "timestamp"
              /\ alocal'[p].id =
                    TimestampId(PrefixOf(alocal'[p].type), now)
              /\ counters' = counters
              /\ seqColl' = seqColl]_vars

\* a failed get_next_id("diagnostic") has returned DGN-<timestamp> while the
\* diagnostic counter, incremented by an earlier call, still holds 1
C10_Witness ==
    \E a \in allocs :
        /\ a.path = "repo" /\ a.type = "diagnostic" /\ a.value = 0
        /\ a.id = [prefix |-> "DGN", digits |-> Digits(StartTime)]
        /\ CounterKey("diagnostic") \in DOMAIN seqColl
        /\ seqColl[CounterKey("diagnostic")].current_value = 1

\* the value a counter document holds, 0 when there is none
ValueOfCounter(path, entity_type, cs, sc) ==
    IF path = "db"
    THEN IF entity_type \in DOMAIN cs THEN cs[entity_type].seq ELSE 0
    ELSE IF CounterKey(entity_type) \in DOMAIN sc
         THEN sc[CounterKey(entity_type)].current_value ELSE 0

\* C21: a stored counter never decreases and is never removed; a step that
\* increments a counter belongs to exactly one allocation, which receives
\* the new value; no two allocations of one allocator for one entity type
\* hold the same counter value; and when an allocation has returned a
\* counter-derived identifier with value v, the store holds at least v.
C21_CounterMonotonic ==
    [][/\ \A k \in DOMAIN counters :
             k \in DOMAIN counters' /\ counters'[k].seq >= counters[k].seq
       /\ \A k \in DOMAIN seqColl :
             /\ k \in DOMAIN seqColl'
             /\ seqColl'[k].current_value >= seqColl[k].current_value
       /\ \A t \in EntityTypes, path \in {"db", "repo"} :
             ValueOfCounter(path, t, counters', seqColl')
                # ValueOfCounter(path, t, counters, seqColl) =>
                 /\ Cardinality({p \in Procs : apc[p] = "idle"
                                                 /\ apc'[p] # "idle"}) = 1
                 /\ \E p \in Procs :
                       /\ apc[p] = "idle" /\ apc'[p] # "idle"
                       /\ alocal'[p].path = path /\ alocal'[p].type = t
                       /\ alocal'[p].value =
                             ValueOfCounter(path, t, counters', seqColl')
                       /\ alocal'[p].value =
                             ValueOfCounter(path, t, counters, seqColl) + 1
       /\ \A a, b \in allocs' \cup {alocal'[p] : p \in Procs} :
             (a # b /\ a.path = b.path /\ a.type = b.type
                /\ a.value # 0 /\ b.value # 0) => a.value # b.value
       /\ \A a \in allocs' :
             a.kind = "counter" =>
                 ValueOfCounter(a.path, a.type, counters', seqColl')
                    >= a.value]_vars

\* two allocations of get_next_id("patient") have returned PAT-001 and
\* PAT-002 and the stored counter holds 2
C21_Witness ==
    \E a, b \in allocs :
        /\ a.path = "repo" /\ b.path = "repo"
        /\ a.type = "patient" /\ b.type = "patient"
        /\ a.kind = "counter" /\ b.kind = "counter"
        /\ a.value = 1 /\ b.value = 2
        /\ seqColl[CounterKey("patient")].current_value = 2

\* C30: initialize_counters never resets or lowers a counter: whenever it
\* runs, and however often, each of its updates leaves every existing
\* counter document as it is and creates only a missing counter of
\* counter_types, with value 0 and its prefix; an allocation on a counter
\* that holds 0 returns value 1.
C30_InitializeKeepsCounters ==
    [][/\ \A p \in Procs :
             (alocal'[p].path = "init" /\ alocal'[p] # alocal[p]) =>
                 /\ \A k \in DOMAIN seqColl :
                       k \in DOMAIN seqColl' /\ seqColl'[k] = seqColl[k]
                 /\ \A k \in DOMAIN seqColl' \ DOMAIN seqColl :
                       /\ seqColl'[k].current_value = 0
                       /\ \E i \in 1..Len(counter_types) :
                             /\ counter_types[i].counter_id = k
                             /\ counter_types[i].prefix = seqColl'[k].prefix
       /\ \A p \in Procs :
             (apc[p] = "idle" /\ alocal'[p].path = "repo"
                /\ alocal'[p].kind = "counter"
                /\ CounterKey(alocal'[p].type) \in DOMAIN seqColl
                /\ seqColl[CounterKey(alocal'[p].type)].current_value = 0) =>
                 /\ alocal'[p].value = 1
                 /\ alocal'[p].id =
                       CounterId(seqColl[CounterKey(alocal'[p].type)].prefix,
                                 1)]_vars

\* initialize_counters ran to its end after an allocation for patients had
\* returned PAT-001: the patient counter still holds 1 and the token counter
\* was created with 0
C30_Witness ==
    /\ \E a, b \in allocs :
          /\ a.path = "repo" /\ a.type = "patient" /\ a.value = 1
          /\ b.path = "init" /\ b.kind = "returned_true"
          /\ a.order < b.order
    /\ CounterKey("patient") \in DOMAIN seqColl
    /\ CounterKey("token") \in DOMAIN seqColl
    /\ seqColl[CounterKey("patient")].current_value = 1
    /\ seqColl[CounterKey("token")].current_value = 0

\* C22: every code path that allocates for an entity type increments the
\* same stored counter, so counter-derived identifiers with the same prefix
\* that were issued through different code paths are pairwise distinct.
C22_Claim ==
    \A a, b \in allocs :
        (a.path # b.path /\ a.kind = "counter" /\ b.kind = "counter"
           /\ a.id.prefix = b.id.prefix) =>
            a.id # b.id

\* the prefix the identifiers of an entity type are said to carry
ClaimedPrefix(entity_type) ==
    IF entity_type = "patient" THEN "PAT"
    ELSE IF entity_type = "veterinarian" THEN "VET"
    ELSE IF entity_type = "technician" THEN "TEC"
    ELSE IF entity_type = "admin" THEN "ADM"
    ELSE IF entity_type = "diagnostic" THEN "DGN"
    ELSE IF entity_type = "token" THEN "TKN"
    ELSE "UNK"

\* ds is value written in decimal, left-padded with zeros to 3 digits and
\* not truncated
PaddedDecimal(ds, value) ==
    /\ \A i \in 1..Len(ds) : ds[i] \in 0..9
    /\ NumOf(ds) = value
    /\ Len(ds) >= 3
    /\ Len(ds) > 3 => ds[1] # 0

\* C20: for every entity type, known or unknown, an allocation whose
\* increment took effect gives prefix-value: value is the counter after the
\* increment in decimal, zero-padded to at least 3 digits and written in
\* full from 1000 on, and prefix is the one of the type, UNK for a type
\* outside the table; every identifier returned from a counter has this
\* form.
C20_IdFormat ==
    [][/\ \A p \in Procs :
             (apc[p] = "idle" /\ apc'[p] # "idle"
                /\ (counters' # counters \/ seqColl' # seqColl)) =>
                 LET a == alocal'[p]
                 IN  /\ a.kind = "counter"
                     /\ a.value = ValueOfCounter(a.path, a.type, counters,
                                                 seqColl) + 1
                     /\ a.value = ValueOfCounter(a.path, a.type, counters',
                                                 seqColl')
                     /\ a.id.prefix = ClaimedPrefix(a.type)
                     /\ PaddedDecimal(a.id.digits, a.value)
       /\ \A a \in allocs' :
             a.kind = "counter" =>
                 /\ a.id.prefix = ClaimedPrefix(a.type)
                 /\ PaddedDecimal(a.id.digits, a.value)]_vars

\* both allocators have returned UNK-1000 for the type "widget", which is
\* not in the table
C20_Witness ==
    \E a, b \in allocs :
        /\ a.type = "widget" /\ b.type = "widget"
        /\ a.path = "db" /\ b.path = "repo"
        /\ a.id = [prefix |-> "UNK", digits |-> <<1, 0, 0, 0>>]
        /\ b.id = a.id

(***************************************************************************)
(* Claims about the analysis pipeline.                                     *)
(***************************************************************************)
Terminal == {"COMPLETED", "FAILED"}

\* the position of a status on QUEUED -> PROCESSING -> {COMPLETED | FAILED}
Rank(st) ==
    CASE st = "NONE" -> 0
      [] st = "QUEUED" -> 1
      [] st = "PROCESSING" -> 2
      [] OTHER -> 3

\* the number of times step e was run for a submission
Count(tr, e) == Cardinality({i \in 1..Len(tr) : tr[i] = e})

\* step e was run before position i
RanBefore(tr, e, i) == \E j \in 1..(i - 1) : tr[j] = e

\* the submission stores a non-empty result / a non-empty error detail
ResultNonEmpty(r) ==
    /\ uuidOf[r] # 0
    /\ dirs[uuidOf[r]].model_output.exists
    /\ dirs[uuidOf[r]].model_output.content # <<>>

ErrorNonEmpty(r) ==
    /\ uuidOf[r] # 0
    /\ dirs[uuidOf[r]].error_json.exists
    /\ dirs[uuidOf[r]].error_json.error # <<>>

C3_Claim ==
    [][\A r \in Reqs :
          (response[r].code = 200 /\ lastPoll' # lastPoll
             /\ lastPoll'.uuid = uuidOf[r] /\ lastPoll'.code # 500) =>
              /\ lastPoll'.code = 202 => bg[r] # "done"
              /\ (bg[r] = "done" /\ status[r] = "COMPLETED") =>
                    lastPoll'.content =
                        ReadAnalysisResultFile(
                            dirs[uuidOf[r]].model_output.content)
              /\ (bg[r] = "done" /\ status[r] = "FAILED") =>
                    lastPoll'.content = dirs[uuidOf[r]].error_json.error]_vars

\* C4: the status only moves forward along QUEUED -> PROCESSING ->
\* {COMPLETED | FAILED}; a terminal status never changes and its task never
\* runs again; an identifier for which get_result has a result to return is
\* never not-ready afterwards.
C4_StatusForward ==
    [][/\ \A r \in Reqs :
             /\ Rank(status'[r]) >= Rank(status[r])
             /\ status[r] \in Terminal =>
                   (status'[r] = status[r] /\ bg'[r] = "done")
       /\ \A u \in Uuids :
             /\ AnalysisResult(dirs[u], TRUE).code = 200 =>
                   AnalysisResult(dirs'[u], TRUE) = AnalysisResult(dirs[u], TRUE)
             /\ (lastPoll.uuid = u /\ lastPoll.code = 200
                   /\ lastPoll'.uuid = u) => lastPoll'.code # 202]_vars

\* a submission went through QUEUED and PROCESSING to COMPLETED and
\* get_result has returned its result
C4_Witness ==
    \E r \in Reqs :
        /\ status[r] = "COMPLETED" /\ bg[r] = "done"
        /\ RanBefore(trace[r], "remote_call", Len(trace[r]) + 1)
        /\ lastPoll.uuid = uuidOf[r] /\ lastPoll.code = 200

\* C5: for every record, the stored result is non-empty iff the status is
\* COMPLETED and the stored error detail is non-empty iff the status is
\* FAILED.
C5_Claim ==
    \A r \in Reqs :
        status[r] # "NONE" =>
            /\ ResultNonEmpty(r) <=> status[r] = "COMPLETED"
            /\ ErrorNonEmpty(r) <=> status[r] = "FAILED"

\* C6: for each identifier returned by submit exactly one background
\* execution is scheduled, and when it has finished exactly one terminal
\* outcome is stored: a result or an error, not none and not both.
C6_Claim ==
    \A r \in Reqs :
        response[r].code = 200 =>
            /\ Count(trace[r], "schedule") = 1
            /\ Count(trace[r], "bg_start") <= 1
            /\ bg[r] = "done" =>
                  (dirs[uuidOf[r]].model_output.exists
                     # dirs[uuidOf[r]].error_json.exists)

\* the exceptions of the remote analysis
AnalysisExceptions == {"timeout", "http_status", "no_choices", "empty_content"}

\* C7: an exception of the remote analysis is caught in the background
\* execution and recorded for the submission as failed with the detail of
\* the exception; the response submit gave stays what it was.
C7_Claim ==
    \A r \in Reqs :
        exc[r] \in AnalysisExceptions =>
            /\ bg[r] = "done"
            /\ status[r] = "FAILED"
            /\ response[r] = [code |-> 200, pdf_uuid |-> uuidOf[r]]
            /\ dirs[uuidOf[r]].error_json.exists
            /\ dirs[uuidOf[r]].error_json.status = "failed"
            /\ \E i \in 1..Len(dirs[uuidOf[r]].error_json.error) :
                  dirs[uuidOf[r]].error_json.error[i] = exc[r]

C9_WrongTypeRejected ==
    /\ \A r \in Reqs :
          (pc[r] # "idle" /\ req[r].content_type # "application/pdf") =>
              /\ pc[r] = "done"
              /\ response[r] = [code |-> 400, pdf_uuid |-> 0]
              /\ uuidOf[r] = 0
              /\ temp[r] = "none"
              /\ bg[r] = "none" /\ bgArgs[r] = <<>>
              /\ status[r] = "NONE"
              /\ trace[r] = <<"validate_raised", "respond">>
    /\ \A u \in Uuids :
          dirs[u].exists =>
              \E r \in Reqs : uuidOf[r] = u
                                /\ req[r].content_type = "application/pdf"

\* an upload of type image/png was refused with 400 and a later get_result
\* found nothing to return
C9_Witness ==
    \E r \in Reqs :
        /\ req[r].content_type = "image/png" /\ response[r].code = 400
        /\ pc[r] = "done"
        /\ lastPoll.code = 202

\* C14: get_result for an identifier that no submit has returned answers
\* 404, which differs from the 202 given while an analysis is pending.
C14_Claim ==
    [][(lastPoll' # lastPoll
          /\ \A r \in Reqs : response[r].pdf_uuid # lastPoll'.uuid) =>
             lastPoll'.code = 404]_vars

\* C15: no step is retried: for every submission the pages are rendered at
\* most once, the background execution starts at most once and the remote
\* endpoint is called at most once, whatever the call ends with; after
\* FAILED nothing more is run for the submission.
C15_NoRetry ==
    [][\A r \in Reqs :
          /\ Count(trace'[r], "remote_call") <= 1
          /\ Count(trace'[r], "bg_start") <= 1
          /\ Count(trace'[r], "render")
                + Count(trace'[r], "render_raised") <= 1
          /\ status[r] = "FAILED" =>
                (trace'[r] = trace[r] /\ bg'[r] = "done"
                   /\ status'[r] = "FAILED")]_vars

\* a submission whose single remote call timed out is FAILED, and get_result
\* was asked about it afterwards
C15_Witness ==
    \E r \in Reqs :
        /\ status[r] = "FAILED" /\ exc[r] = "timeout" /\ bg[r] = "done"
        /\ Count(trace[r], "remote_call") = 1
        /\ Count(trace[r], "render") = 1
        /\ lastPoll.uuid = uuidOf[r]

\* C16: a background execution that has ended has left a terminal outcome
\* for its submission, a result or an error detail, also when writing the
\* result or the error detail fails: it never ends with the submission
\* still not-ready.
C16_Claim ==
    \A r \in Reqs :
        bg[r] = "done" =>
            \/ dirs[uuidOf[r]].model_output.exists
            \/ dirs[uuidOf[r]].error_json.exists

\* the failure kind of the vision client an exception belongs to
FailureKind(e) ==
    CASE e = "timeout" -> "TransportError"
      [] e = "http_status" -> "RemoteError"
      [] OTHER -> "MalformedResponse"

\* C19: failures of different kinds (transport or timeout, non-success
\* status, malformed or empty response) leave the vision client as different
\* errors, and the error detail stored for the FAILED submission names the
\* kind that occurred.
C19_Claim ==
    \A r \in Reqs :
        (exc[r] \in AnalysisExceptions /\ bg[r] = "done") =>
            /\ \A e \in AnalysisExceptions :
                  FailureKind(e) # FailureKind(exc[r]) =>
                      AnalyzeBloodworkImagesError(e)
                          # AnalyzeBloodworkImagesError(exc[r])
            /\ dirs[uuidOf[r]].error_json.exists =>
                  \E i \in 1..Len(dirs[uuidOf[r]].error_json.error) :
                      dirs[uuidOf[r]].error_json.error[i]
                          \in {exc[r], FailureKind(exc[r])}

\* the page numbers 1..n in document order
PagesInOrder(n) == [i \in 1..n |-> i]

\* C23: for a document of N pages that renders without error the renderer
\* returns N images, the i-th being page i, and the user message of the
\* request to the endpoint is the instruction text followed by exactly those
\* N images in the same order.
C23_PageOrderPreserved ==
    \A r \in Reqs :
        /\ (req[r].doc.openable /\ req[r].doc.badPage = 0) =>
              /\ req[r].render.images = PagesInOrder(req[r].doc.pages)
              /\ bgArgs[r] = req[r].render.images
        /\ payload[r] # <<>> =>
              /\ req[r].doc.openable /\ req[r].doc.badPage = 0
              /\ Len(payload[r]) = req[r].doc.pages + 1
              /\ payload[r][1] = [type |-> "text", text |-> InstructionText]
              /\ \A i \in 1..req[r].doc.pages :
                    payload[r][i + 1] =
                        [type |-> "image_url", image_url |-> ImageUrl(i)]

\* the request for a document of two pages was built and the analysis of
\* the submission completed
C23_Witness ==
    \E r \in Reqs :
        /\ req[r].doc.pages = 2 /\ req[r].doc.badPage = 0
        /\ Len(payload[r]) = 3
        /\ status[r] = "COMPLETED"

\* C24 (as stated): when one page fails to render the failure names the
\* page, the remaining pages are rendered, and the images of the pages that
\* did render are handed on in document order.
C24_Original ==
    \A r \in Reqs :
        (req[r].doc.openable /\ req[r].doc.badPage # 0) =>
            /\ req[r].render.error = PageErrorMessage(req[r].doc.badPage)
            /\ req[r].render.images =
                  SelectSeq(PagesInOrder(req[r].doc.pages),
                            LAMBDA i : i # req[r].doc.badPage)
            /\ bgArgs[r] = req[r].render.images

\* C24 (amended): when one page fails to render the renderer stops there:
\* it raises an error naming the failing page, renders none of the pages
\* after it and returns no image list. The images of the pages before it
\* stay in the output directory, but nothing is handed on: submit answers
\* 500 and no background execution is scheduled.
C24_RenderStopsAtFailingPage ==
    \A r \in Reqs :
        (req[r].doc.openable /\ req[r].doc.badPage # 0) =>
            /\ req[r].render.raised
            /\ req[r].render.error = PageErrorMessage(req[r].doc.badPage)
            /\ req[r].render.images = <<>>
            /\ req[r].render.saved = PagesInOrder(req[r].doc.badPage - 1)
            /\ dirs[uuidOf[r]].images = req[r].render.saved
            /\ bgArgs[r] = <<>> /\ bg[r] = "none"
            /\ response[r].code = 500

\* the second page of a document of two pages failed after the first page
\* was rendered and saved
C24_Witness ==
    \E r \in Reqs :
        /\ req[r].doc.pages = 2 /\ req[r].doc.badPage = 2
        /\ req[r].render.raised
        /\ dirs[uuidOf[r]].images = <<1>>
        /\ pc[r] = "done"

\* C25: a render call that opened the document closes the handle exactly
\* once on every exit path, whether every page rendered or a page failed at
\* any index; a call that could not open it has no handle to close.
C25_HandleClosedOnce ==
    \A r \in Reqs :
        /\ req[r].doc.openable => req[r].render.closes = 1
        /\ ~req[r].doc.openable => req[r].render.closes = 0

\* a render call raised at the first page of an opened document and had
\* closed the handle once
C25_Witness ==
    \E r \in Reqs :
        /\ req[r].doc.openable /\ req[r].doc.badPage = 1
        /\ req[r].render.raised /\ req[r].render.closes = 1
        /\ trace[r][Len(trace[r])] = "respond"

\* the long-running steps of a submission: the rendering of the pages and
\* the remote analysis call
LongSteps == {"render", "render_raised", "remote_call"}

\* C26: work for one submission never blocks another: while a submission
\* renders its pages or waits for the remote call, the event loop is free
\* for the other requests, i.e. every such step runs off the event loop
\* thread and is awaited.
C26_Claim ==
    \A r \in Reqs :
        \A i \in 1..Len(trace[r]) :
            trace[r][i] \in LongSteps => trace[r][i] \in ExecutorSteps

\* C27: a get_result that comes while or after the background execution
\* commits its outcome answers not-ready or returns the complete result,
\* never an empty or truncated one.
C27_Claim ==
    \A r \in Reqs :
        (uuidOf[r] # 0 /\ lastPoll.uuid = uuidOf[r] /\ lastPoll.code = 200) =>
            /\ lastPoll.content # <<>>
            /\ Len(lastPoll.content) = Len(analysis[r])

\* C28: for a submission whose analysis succeeded, the content get_result
\* returns is the non-empty text the analyze call returned for that
\* submission, character for character.
C28_Claim ==
    \A r \in Reqs :
        (status[r] = "COMPLETED" /\ lastPoll.uuid = uuidOf[r]
           /\ lastPoll.code = 200) =>
            /\ analysis[r] # <<>>
            /\ lastPoll.content = analysis[r]

\* C29: a submit that fails synchronously (validation, saving the upload or
\* rendering) returns an error and leaves nothing behind: no background
\* execution is scheduled, no temporary copy of the upload is left, and no
\* working directory of the submission remains.
C29_Claim ==
    \A r \in Reqs :
        (pc[r] = "done" /\ response[r].code # 200) =>
            /\ response[r].code \in {400, 500}
            /\ bg[r] = "none"
            /\ temp[r] # "exists"
            /\ uuidOf[r] # 0 => ~dirs[uuidOf[r]].exists

(***************************************************************************)
(* Claims about the diagnostic repository.                                 *)
(***************************************************************************)
\* C11: a create whose id is already present in the collection fails with a
\* duplicate-identifier error that reaches the caller, and the document
\* stored under that id is left as it was.
C11_Claim ==
    [][\A p \in Procs :
          (dpc[p] = "inserting" /\ dpc'[p] = "idle"
             /\ dlocal[p].diagnostic_id \in DOMAIN ai_diagnostics) =>
              /\ ai_diagnostics' = ai_diagnostics
              /\ ~dres'.returned
              /\ dres'.raised = "DuplicateKeyError"]_vars

\* C12: the sequence numbers of the diagnostics of one patient are pairwise
\* distinct, also when creations for the patient run concurrently.
C12_Claim ==
    \A i, j \in DOMAIN ai_diagnostics :
        (i # j /\ ai_diagnostics[i].patient_id = ai_diagnostics[j].patient_id)
            => ai_diagnostics[i].sequence_number
                  # ai_diagnostics[j].sequence_number

\* C13: when no other creation is under way, get_next_sequence_number
\* returns 1 for a patient without diagnostics and otherwise the largest
\* sequence number of the patient plus one, whatever other patients have.
C13_Claim ==
    [][\A p \in Procs :
          (dpc[p] = "idle" /\ dpc'[p] = "have_seq"
             /\ \A q \in Procs : dpc[q] = "idle") =>
              LET S == SequenceNumbersOf(ai_diagnostics, dlocal'[p].patient_id)
              IN  /\ S = {} => dlocal'[p].sequence_number = 1
                  /\ S # {} =>
                        /\ dlocal'[p].sequence_number \notin S
                        /\ \A n \in S : n < dlocal'[p].sequence_number
                        /\ dlocal'[p].sequence_number - 1 \in S]_vars

\* the update operations of the repository
UpdateOps == {"update_processing_info", "add_veterinarian_review"}

\* C17: an update changes only the field it names, on the document with the
\* given id: no step removes a document or changes its patient_id,
\* sequence_number, pdf_metadata or created_at; processing_info changes only
\* in an update_processing_info addressed to the document, which leaves its
\* veterinarian_review alone, and the other way round; only create adds a
\* document.
C17_PartialUpdate ==
    [][/\ \A id \in DOMAIN ai_diagnostics :
             /\ id \in DOMAIN ai_diagnostics'
             /\ LET a == ai_diagnostics[id]
                    b == ai_diagnostics'[id]
                IN  /\ b.patient_id = a.patient_id
                    /\ b.sequence_number = a.sequence_number
                    /\ b.pdf_metadata = a.pdf_metadata
                    /\ b.created_at = a.created_at
                    /\ b.processing_info # a.processing_info =>
                          /\ dops' = dops + 1
                          /\ dres'.op = "update_processing_info"
                          /\ dres'.id = id
                          /\ b.veterinarian_review = a.veterinarian_review
                    /\ b.veterinarian_review # a.veterinarian_review =>
                          /\ dops' = dops + 1
                          /\ dres'.op = "add_veterinarian_review"
                          /\ dres'.id = id
                          /\ b.processing_info = a.processing_info
       /\ DOMAIN ai_diagnostics' # DOMAIN ai_diagnostics =>
             (dres'.op = "create" /\ dops' = dops)]_vars

\* a diagnostic created with the callers' pdf_metadata has had both its
\* processing_info and its veterinarian_review set by updates
C17_Witness ==
    \E id \in DOMAIN ai_diagnostics :
        /\ dres.op \in UpdateOps /\ dres.id = id /\ dres.returned
        /\ ai_diagnostics[id].processing_info # DefaultProcessingInfo
        /\ ai_diagnostics[id].veterinarian_review # NoReview
        /\ ai_diagnostics[id].pdf_metadata = UploadMetadata
        /\ ai_diagnostics[id].sequence_number = 1

\* C18: an update addressed to an id without a document returns false,
\* raises nothing and creates nothing; an update addressed to a stored
\* document returns true.
C18_Claim ==
    dres.op \in UpdateOps =>
        /\ dres.raised = "none"
        /\ dres.returned <=> dres.existed
        /\ ~dres.existed => dres.id \notin DOMAIN ai_diagnostics

====
